---- MODULE Spec2Model ----
(***************************************************************************)
(* A state-machine model of github-deploy.py: main() is one sequential     *)
(* run, cut into steps at its externally visible operations (HTTP          *)
(* requests, temporary files, sudo subprocesses, unlink, sleep).           *)
(*                                                                         *)
(* Strings that the program takes apart (archive member names, glob        *)
(* patterns, paths, timestamps) are sequences of one-character strings.    *)
(***************************************************************************)
EXTENDS Integers, Sequences, FiniteSets, TLC

VARIABLES
    config,           \* the parsed YAML document (line 42)
    euid,             \* os.geteuid() of the process
    provider,         \* the CI provider: its artifact records, page size, archive
    pc,               \* position of main()
    i,                \* index of the running for-loop
    artifact_count,   \* line 57
    all_artifacts,    \* lines 58, 65
    page,             \* lines 60, 66
    wanted_artifacts, \* lines 70-80
    response_zip,     \* line 91: the opened archive, a sequence of member names
    temp_to_target,   \* line 93: insertion-ordered dict, a sequence of [k, v]
    tmpfiles,         \* temporary files that exist on disk
    ntf_count,        \* number of temporary files created so far
    log,              \* externally visible operations, in order of occurrence
    exception,        \* the exception that ended the run ("" if none)
    exit_code         \* process exit status (-1 while running)

vars == <<config, euid, provider, pc, i, artifact_count, all_artifacts, page,
          wanted_artifacts, response_zip, temp_to_target, tmpfiles, ntf_count,
          log, exception, exit_code>>

-----------------------------------------------------------------------------
(* Bounds of the explored inputs *)

MaxServices == 2
MaxCopyFiles == 2
MaxRecords == 3
MaxPerPage == 2

-----------------------------------------------------------------------------
(* Strings *)

Min(a, b) == IF a <= b THEN a ELSE b

\* The position of the last "/" in p, 0 if there is none.
RECURSIVE LastSlash(_, _)
LastSlash(p, k) ==
    IF k = 0 THEN 0
    ELSE IF p[k] = "/" THEN k
    ELSE LastSlash(p, k - 1)

\* os.path.basename(p): what follows the last slash.
basename(p) == SubSeq(p, LastSlash(p, Len(p)) + 1, Len(p))

\* os.path.join(a, b) on POSIX.
join(a, b) ==
    IF b # <<>> /\ Head(b) = "/" THEN b
    ELSE IF a = <<>> \/ a[Len(a)] = "/" THEN a \o b
    ELSE a \o <<"/">> \o b

\* ZipInfo.is_dir(): the member name ends with a slash.
is_dir(filename) == filename # <<>> /\ filename[Len(filename)] = "/"

\* fnmatch.fnmatch(name, pat) on POSIX (normcase is the identity there) for
\* patterns made of literals, "?" and "*"; "*" is translated to ".*" and so
\* runs across "/".
RECURSIVE fnmatch(_, _)
fnmatch(name, pat) ==
    IF pat = <<>> THEN name = <<>>
    ELSE IF Head(pat) = "*"
        THEN fnmatch(name, Tail(pat))
             \/ (name # <<>> /\ fnmatch(Tail(name), pat))
    ELSE IF Head(pat) = "?"
        THEN name # <<>> /\ fnmatch(Tail(name), Tail(pat))
    ELSE name # <<>> /\ Head(name) = Head(pat)
         /\ fnmatch(Tail(name), Tail(pat))

\* Code point order of the characters that occur in timestamps.
Ord(c) == CASE c = "0" -> 48 [] c = "1" -> 49 [] c = "2" -> 50

\* Python's str comparison a < b: lexicographic by code point.
RECURSIVE StrLess(_, _)
StrLess(a, b) ==
    IF b = <<>> THEN FALSE
    ELSE IF a = <<>> THEN TRUE
    ELSE IF Head(a) = Head(b) THEN StrLess(Tail(a), Tail(b))
    ELSE Ord(Head(a)) < Ord(Head(b))

-----------------------------------------------------------------------------
(* The inputs of a run: configuration documents, provider listings, archives *)

\* dict.get(key, default) on the configuration document, a function whose
\* domain is the set of keys the document has.
Get(d, key, default) == IF key \in DOMAIN d THEN d[key] ELSE default

\* Sequences over S of length at most n.
SeqsUpTo(S, n) == UNION {[1..k -> S] : k \in 0..n}

\* Members of the two archives that are explored.
M_bin == <<"b", "/">>
M_app == <<"b", "/", "a">>
M_lib == <<"l", "/", "x">>
M_top == <<"x">>
Archives == {<<M_bin, M_app, M_lib>>, <<M_lib, M_top>>}

FileRules ==
    {[archive_path |-> M_lib, target_path |-> <<"/", "o", "/", "x">>],
     [archive_path |-> M_app, target_path |-> <<"/", "o", "/", "a">>]}

PatternLists ==
    {<<>>, <<[pattern |-> <<"*", "x">>, target_dir |-> <<"/", "l">>]>>}

AllServices == <<"a.service", "b.service", "c.service", "d.service">>
ServiceLists == {SubSeq(AllServices, 1, k) : k \in 0..MaxServices}

\* updated_at values: fixed-width timestamps, 02 < 10 < 11.
Timestamps == {<<"0", "2">>, <<"1", "0">>, <<"1", "1">>}

\* The records a listing is made of; the branch of a record of another name
\* is never read (line 73 fails first), so one branch is enough for those.
RecordKinds ==
    {r \in [name : {"app", "doc"}, head_branch : {"main", "dev"},
            updated_at : Timestamps] :
        r.name = "doc" => r.head_branch = "main"}

\* A provider listing: records in provider order, each with its own id.
WithIds(l) ==
    [k \in 1..Len(l) |->
        [id |-> k, name |-> l[k].name, head_branch |-> l[k].head_branch,
         updated_at |-> l[k].updated_at]]

Listings == {WithIds(l) : l \in SeqsUpTo(RecordKinds, MaxRecords)}

BaseConfig ==
    [repo |-> "owner/name", artifact |-> "app"]

DefaultListing ==
    WithIds(<<[name |-> "app", head_branch |-> "main",
               updated_at |-> <<"1", "0">>]>>)

DefaultArchive == <<M_lib, M_top>>

\* Runs that differ in what is deployed.
InitDeploy ==
    /\ euid = 1000
    /\ \E services \in ServiceLists,
          files \in SeqsUpTo(FileRules, MaxCopyFiles),
          patterns \in PatternLists :
         config = BaseConfig
                  @@ ("systemd-services" :> services)
                  @@ ("copy-files" :> files)
                  @@ ("copy-patterns" :> patterns)
    /\ \E archive \in Archives :
         provider = [records |-> DefaultListing, per_page |-> 1,
                     archive |-> archive]

\* Runs that differ in what the provider lists.
InitLocate ==
    /\ euid = 1000
    /\ \E branch \in {"", "main"} :
         config = IF branch = "" THEN BaseConfig
                  ELSE BaseConfig @@ ("branch" :> branch)
    /\ \E records \in Listings, per_page \in 1..MaxPerPage :
         provider = [records |-> records, per_page |-> per_page,
                     archive |-> DefaultArchive]

\* Runs that differ in identity, in the allow_root key and in the
\* zip-location key.
InitGate ==
    /\ euid \in {0, 1000}
    /\ \E allow \in {"absent", "false", "true"},
          zip \in {<<>>, <<"/", "z">>} :
         config = (IF allow = "absent" THEN BaseConfig
                   ELSE BaseConfig @@ ("allow_root" :> (allow = "true")))
                  @@ (IF zip = <<>> THEN <<>> ELSE ("zip-location" :> zip))
                  @@ ("systemd-services" :> <<"a.service">>)
    /\ provider = [records |-> DefaultListing, per_page |-> 1,
                   archive |-> DefaultArchive]

Init ==
    /\ InitDeploy \/ InitLocate \/ InitGate
    /\ pc = "gate"
    /\ i = 1
    /\ artifact_count = 0
    /\ all_artifacts = <<>>
    /\ page = 0
    /\ wanted_artifacts = <<>>
    /\ response_zip = <<>>
    /\ temp_to_target = <<>>
    /\ tmpfiles = {}
    /\ ntf_count = 0
    /\ log = <<>>
    /\ exception = ""
    /\ exit_code = -1

-----------------------------------------------------------------------------
(* Helpers of the steps *)

NoSvc == ""
NoPath == <<>>

\* One externally visible operation. rc is the exit status of a subprocess;
\* subprocess.run is called without check=True, so the program never reads it.
Ev(op, svc, n, path, rc) ==
    [op |-> op, svc |-> svc, n |-> n, path |-> path, rc |-> rc]

\* sys.exit(status)
SystemExit(status) ==
    /\ exception' = "SystemExit"
    /\ exit_code' = status
    /\ pc' = "done"

\* An exception nobody catches: the interpreter prints the traceback and the
\* process ends with status 1.
Uncaught(name) ==
    /\ exception' = name
    /\ exit_code' = 1
    /\ pc' = "done"

\* d[k] = v on an insertion-ordered dict.
DictSet(d, k, v) ==
    IF \E j \in 1..Len(d) : d[j].k = k
    THEN [j \in 1..Len(d) |-> IF d[j].k = k THEN [k |-> k, v |-> v] ELSE d[j]]
    ELSE Append(d, [k |-> k, v |-> v])

\* Page p of the provider's listing (the request without ?page= is page 1).
Page(p) ==
    SubSeq(provider.records,
           (p - 1) * provider.per_page + 1,
           Min(p * provider.per_page, Len(provider.records)))

\* Lines 72-78: the filter on name and branch.
Wanted(art, want_branch) ==
    /\ art.name = config["artifact"]
    /\ (want_branch = "" \/ art.head_branch = want_branch)

\* Insert that puts x before the records of the same key.
RECURSIVE InsertTiesFirst(_, _)
InsertTiesFirst(s, x) ==
    IF s = <<>> THEN <<x>>
    ELSE IF ~StrLess(x.updated_at, Head(s).updated_at) THEN <<x>> \o s
    ELSE <<Head(s)>> \o InsertTiesFirst(Tail(s), x)

\* list.sort(key=updated_at, reverse=True): stable, so that records with equal
\* keys keep their order. x goes before the first record with a smaller key.
RECURSIVE Insert(_, _)
Insert(s, x) ==
    IF s = <<>> THEN <<x>>
    ELSE IF StrLess(Head(s).updated_at, x.updated_at) THEN <<x>> \o s
    ELSE <<Head(s)>> \o Insert(Tail(s), x)

RECURSIVE SortFreshestFirst(_)
SortFreshestFirst(s) ==
    IF s = <<>> THEN <<>>
    ELSE Insert(SortFreshestFirst(SubSeq(s, 1, Len(s) - 1)), s[Len(s)])

\* Lines 115-120: the members a pattern stages, in archive order.
Matches(zip, pattern) ==
    SelectSeq(zip, LAMBDA e : ~is_dir(e) /\ fnmatch(e, pattern))

\* Lines 122-135 for the matched members ms: member k goes to the k-th new
\* temporary file.
RECURSIVE StageMatches(_, _, _, _)
StageMatches(d, ms, first, target_dir) ==
    IF ms = <<>> THEN d
    ELSE StageMatches(DictSet(d, first, join(target_dir, basename(Head(ms)))),
                      Tail(ms), first + 1, target_dir)

systemd_services == Get(config, "systemd-services", <<>>)
copy_files == Get(config, "copy-files", <<>>)
copy_patterns == Get(config, "copy-patterns", <<>>)

-----------------------------------------------------------------------------
(* The steps of main() *)

\* RootForbidden with the opt-in read from a key the document never has.
RootForbiddenIgnoresOptIn == ~Get(config, "allow-root", FALSE) /\ euid = 0

\* Line 44: the condition of the root check.
RootForbidden == ~Get(config, "allow_root", FALSE) /\ euid = 0

\* Lines 44-46: the root check refuses.
GateRefuse ==
    /\ pc = "gate"
    /\ RootForbidden
    /\ SystemExit(1)
    /\ UNCHANGED <<config, euid, provider, i, artifact_count, all_artifacts,
                   page, wanted_artifacts, response_zip, temp_to_target,
                   tmpfiles, ntf_count, log>>

\* Lines 44-52: the root check passes; sudo -v.
GatePass ==
    /\ pc = "gate"
    /\ ~RootForbidden
    /\ log' = Append(log, Ev("sudo_v", NoSvc, 0, NoPath, 0))
    /\ pc' = "list"
    /\ UNCHANGED <<config, euid, provider, i, artifact_count, all_artifacts,
                   page, wanted_artifacts, response_zip, temp_to_target,
                   tmpfiles, ntf_count, exception, exit_code>>

\* ListFirst with the page counter left at the page already fetched.
ListFirstPageOne ==
    /\ pc = "list"
    /\ log' = Append(log, Ev("get_list", NoSvc, 1, NoPath, 0))
    /\ artifact_count' = Len(provider.records)
    /\ all_artifacts' = Page(1)
    /\ page' = 1
    /\ pc' = "more"
    /\ UNCHANGED <<config, euid, provider, i, wanted_artifacts, response_zip,
                   temp_to_target, tmpfiles, ntf_count, exception, exit_code>>

\* Lines 55-60: the first page of the listing.
ListFirst ==
    /\ pc = "list"
    /\ log' = Append(log, Ev("get_list", NoSvc, 1, NoPath, 0))
    /\ artifact_count' = Len(provider.records)
    /\ all_artifacts' = Page(1)
    /\ page' = 2
    /\ pc' = "more"
    /\ UNCHANGED <<config, euid, provider, i, wanted_artifacts, response_zip,
                   temp_to_target, tmpfiles, ntf_count, exception, exit_code>>

\* Lines 55-57, 63-65: the provider answers with an error document, which has
\* no total_count and no artifacts.
ListError ==
    /\ pc \in {"list", "more"}
    /\ pc = "more" => Len(all_artifacts) < artifact_count
    /\ log' = Append(log, Ev("get_list", NoSvc,
                             IF pc = "list" THEN 1 ELSE page, NoPath, 1))
    /\ Uncaught("KeyError")
    /\ UNCHANGED <<config, euid, provider, i, artifact_count, all_artifacts,
                   page, wanted_artifacts, response_zip, temp_to_target,
                   tmpfiles, ntf_count>>

\* Lines 61-66: one more page.
ListMore ==
    /\ pc = "more"
    /\ Len(all_artifacts) < artifact_count
    /\ log' = Append(log, Ev("get_list", NoSvc, page, NoPath, 0))
    /\ all_artifacts' = all_artifacts \o Page(page)
    /\ page' = page + 1
    /\ UNCHANGED <<config, euid, provider, pc, i, artifact_count,
                   wanted_artifacts, response_zip, temp_to_target, tmpfiles,
                   ntf_count, exception, exit_code>>

\* Lines 61, 69-80: the loop ends; filter and sort.
FilterAndSort ==
    /\ pc = "more"
    /\ ~(Len(all_artifacts) < artifact_count)
    /\ wanted_artifacts' =
         SortFreshestFirst(
             SelectSeq(all_artifacts,
                       LAMBDA art : Wanted(art, Get(config, "branch", ""))))
    /\ pc' = "download"
    /\ UNCHANGED <<config, euid, provider, i, artifact_count, all_artifacts,
                   page, response_zip, temp_to_target, tmpfiles, ntf_count,
                   log, exception, exit_code>>

\* Line 83: wanted_artifacts[0] of an empty list, evaluated for the URL before
\* the request is made.
NoArtifact ==
    /\ pc = "download"
    /\ wanted_artifacts = <<>>
    /\ Uncaught("IndexError")
    /\ UNCHANGED <<config, euid, provider, i, artifact_count, all_artifacts,
                   page, wanted_artifacts, response_zip, temp_to_target,
                   tmpfiles, ntf_count, log>>

\* The request of line 83 and the write of lines 85-88.
DownloadLog(rc) ==
    log \o <<Ev("get_zip", NoSvc, wanted_artifacts[1].id, NoPath, rc)>>
        \o (IF "zip-location" \in DOMAIN config
            THEN <<Ev("write_zip", NoSvc, 0, config["zip-location"], 0)>>
            ELSE <<>>)

\* Lines 83-93: download and open the archive.
Download ==
    /\ pc = "download"
    /\ wanted_artifacts # <<>>
    /\ log' = DownloadLog(0)
    /\ response_zip' = provider.archive
    /\ temp_to_target' = <<>>
    /\ pc' = "files"
    /\ i' = 1
    /\ UNCHANGED <<config, euid, provider, artifact_count, all_artifacts,
                   page, wanted_artifacts, tmpfiles, ntf_count, exception,
                   exit_code>>

\* Lines 83-91: the provider answers with something that is no zip archive.
DownloadError ==
    /\ pc = "download"
    /\ wanted_artifacts # <<>>
    /\ log' = DownloadLog(1)
    /\ Uncaught("BadZipFile")
    /\ UNCHANGED <<config, euid, provider, i, artifact_count, all_artifacts,
                   page, wanted_artifacts, response_zip, temp_to_target,
                   tmpfiles, ntf_count>>

\* Lines 96-109: stage one copy-files entry.
ExtractFile ==
    /\ pc = "files"
    /\ i <= Len(copy_files)
    /\ \E k \in 1..Len(response_zip) :
         response_zip[k] = copy_files[i].archive_path
    /\ ntf_count' = ntf_count + 1
    /\ tmpfiles' = tmpfiles \cup {ntf_count + 1}
    /\ log' = Append(log, Ev("mktemp", NoSvc, ntf_count + 1, NoPath, 0))
    /\ temp_to_target' =
         DictSet(temp_to_target, ntf_count + 1, copy_files[i].target_path)
    /\ i' = i + 1
    /\ UNCHANGED <<config, euid, provider, pc, artifact_count, all_artifacts,
                   page, wanted_artifacts, response_zip, exception, exit_code>>

\* Line 97: the archive has no member of that name.
ExtractFileMissing ==
    /\ pc = "files"
    /\ i <= Len(copy_files)
    /\ ~\E k \in 1..Len(response_zip) :
         response_zip[k] = copy_files[i].archive_path
    /\ Uncaught("KeyError")
    /\ UNCHANGED <<config, euid, provider, i, artifact_count, all_artifacts,
                   page, wanted_artifacts, response_zip, temp_to_target,
                   tmpfiles, ntf_count, log>>

\* Lines 112-135: stage every member that one copy-patterns entry matches.
ExtractPattern ==
    /\ pc = "patterns"
    /\ i <= Len(copy_patterns)
    /\ LET ms == Matches(response_zip, copy_patterns[i].pattern)
       IN /\ ntf_count' = ntf_count + Len(ms)
          /\ tmpfiles' = tmpfiles \cup (ntf_count + 1 .. ntf_count + Len(ms))
          /\ log' = log \o [k \in 1..Len(ms) |->
                              Ev("mktemp", NoSvc, ntf_count + k, NoPath, 0)]
          /\ temp_to_target' =
               StageMatches(temp_to_target, ms, ntf_count + 1,
                            copy_patterns[i].target_dir)
    /\ i' = i + 1
    /\ UNCHANGED <<config, euid, provider, pc, artifact_count, all_artifacts,
                   page, wanted_artifacts, response_zip, exception, exit_code>>

\* StopService as if subprocess.run were called with check=True.
StopServiceChecked ==
    /\ pc = "stop"
    /\ i <= Len(systemd_services)
    /\ \E rc \in {0, 1} :
         /\ log' = Append(log, Ev("stop", systemd_services[i], 0, NoPath, rc))
         /\ IF rc = 0
            THEN /\ i' = i + 1
                 /\ UNCHANGED <<pc, exception, exit_code>>
            ELSE /\ Uncaught("CalledProcessError")
                 /\ UNCHANGED i
    /\ UNCHANGED <<config, euid, provider, artifact_count, all_artifacts,
                   page, wanted_artifacts, response_zip, temp_to_target,
                   tmpfiles, ntf_count>>

\* Lines 138-140: sudo systemctl stop.
StopService ==
    /\ pc = "stop"
    /\ i <= Len(systemd_services)
    /\ \E rc \in {0, 1} :
         log' = Append(log, Ev("stop", systemd_services[i], 0, NoPath, rc))
    /\ i' = i + 1
    /\ UNCHANGED <<config, euid, provider, pc, artifact_count, all_artifacts,
                   page, wanted_artifacts, response_zip, temp_to_target,
                   tmpfiles, ntf_count, exception, exit_code>>

\* CopyFile as if subprocess.run were called with check=True.
CopyFileChecked ==
    /\ pc = "copy"
    /\ i <= Len(temp_to_target)
    /\ \E rc \in {0, 1} :
         /\ log' = Append(log, Ev("cp", NoSvc, temp_to_target[i].k,
                                  temp_to_target[i].v, rc))
         /\ IF rc = 0
            THEN /\ i' = i + 1
                 /\ UNCHANGED <<pc, exception, exit_code>>
            ELSE /\ Uncaught("CalledProcessError")
                 /\ UNCHANGED i
    /\ UNCHANGED <<config, euid, provider, artifact_count, all_artifacts,
                   page, wanted_artifacts, response_zip, temp_to_target,
                   tmpfiles, ntf_count>>

\* Lines 143-144: sudo cp.
CopyFile ==
    /\ pc = "copy"
    /\ i <= Len(temp_to_target)
    /\ \E rc \in {0, 1} :
         log' = Append(log, Ev("cp", NoSvc, temp_to_target[i].k,
                               temp_to_target[i].v, rc))
    /\ i' = i + 1
    /\ UNCHANGED <<config, euid, provider, pc, artifact_count, all_artifacts,
                   page, wanted_artifacts, response_zip, temp_to_target,
                   tmpfiles, ntf_count, exception, exit_code>>

\* Lines 146-148: sudo systemctl start.
StartService ==
    /\ pc = "start"
    /\ i <= Len(systemd_services)
    /\ \E rc \in {0, 1} :
         log' = Append(log, Ev("start", systemd_services[i], 0, NoPath, rc))
    /\ i' = i + 1
    /\ UNCHANGED <<config, euid, provider, pc, artifact_count, all_artifacts,
                   page, wanted_artifacts, response_zip, temp_to_target,
                   tmpfiles, ntf_count, exception, exit_code>>

\* Lines 151-152: os.unlink.
Unlink ==
    /\ pc = "cleanup"
    /\ i <= Len(temp_to_target)
    /\ tmpfiles' = tmpfiles \ {temp_to_target[i].k}
    /\ log' = Append(log, Ev("unlink", NoSvc, temp_to_target[i].k, NoPath, 0))
    /\ i' = i + 1
    /\ UNCHANGED <<config, euid, provider, pc, artifact_count, all_artifacts,
                   page, wanted_artifacts, response_zip, temp_to_target,
                   ntf_count, exception, exit_code>>

\* Lines 154-155: time.sleep(1.5).
Settle ==
    /\ pc = "settle"
    /\ log' = Append(log, Ev("sleep", NoSvc, 0, NoPath, 0))
    /\ pc' = "status"
    /\ i' = 1
    /\ UNCHANGED <<config, euid, provider, artifact_count, all_artifacts,
                   page, wanted_artifacts, response_zip, temp_to_target,
                   tmpfiles, ntf_count, exception, exit_code>>

\* Lines 156-157: sudo env PAGER= systemctl status.
StatusService ==
    /\ pc = "status"
    /\ i <= Len(systemd_services)
    /\ log' = Append(log, Ev("status", systemd_services[i], 0, NoPath, 0))
    /\ i' = i + 1
    /\ UNCHANGED <<config, euid, provider, pc, artifact_count, all_artifacts,
                   page, wanted_artifacts, response_zip, temp_to_target,
                   tmpfiles, ntf_count, exception, exit_code>>

\* The list each for-loop runs over.
LoopLen(p) ==
    CASE p = "files" -> Len(copy_files)
      [] p = "patterns" -> Len(copy_patterns)
      [] p \in {"stop", "start", "status"} -> Len(systemd_services)
      [] p \in {"copy", "cleanup"} -> Len(temp_to_target)

\* AfterLoop with the services started again before the files are copied.
AfterLoopStartBeforeCopy(p) ==
    CASE p = "files" -> "patterns"
      [] p = "patterns" -> "stop"
      [] p = "stop" -> "start"
      [] p = "start" -> "copy"
      [] p = "copy" -> "cleanup"
      [] p = "cleanup" ->
           IF systemd_services # <<>> THEN "settle" ELSE "return"
      [] p = "status" -> "return"

\* AfterLoop without the test of line 154.
AfterLoopAlwaysSettle(p) ==
    CASE p = "files" -> "patterns"
      [] p = "patterns" -> "stop"
      [] p = "stop" -> "copy"
      [] p = "copy" -> "start"
      [] p = "start" -> "cleanup"
      [] p = "cleanup" -> "settle"
      [] p = "status" -> "return"

\* The statement that follows each for-loop.
AfterLoop(p) ==
    CASE p = "files" -> "patterns"
      [] p = "patterns" -> "stop"
      [] p = "stop" -> "copy"
      [] p = "copy" -> "start"
      [] p = "start" -> "cleanup"
      [] p = "cleanup" ->
           IF systemd_services # <<>> THEN "settle" ELSE "return"
      [] p = "status" -> "return"

\* A for-loop is exhausted and main() goes on with the next statement.
EndFor ==
    /\ pc \in {"files", "patterns", "stop", "copy", "start", "cleanup",
               "status"}
    /\ i > LoopLen(pc)
    /\ pc' = AfterLoop(pc)
    /\ i' = 1
    /\ UNCHANGED <<config, euid, provider, artifact_count, all_artifacts,
                   page, wanted_artifacts, response_zip, temp_to_target,
                   tmpfiles, ntf_count, log, exception, exit_code>>

\* Lines 157-161: main() returns and the interpreter exits with status 0.
Return ==
    /\ pc = "return"
    /\ exit_code' = 0
    /\ pc' = "done"
    /\ UNCHANGED <<config, euid, provider, i, artifact_count, all_artifacts,
                   page, wanted_artifacts, response_zip, temp_to_target,
                   tmpfiles, ntf_count, log, exception>>

Next ==
    \/ GateRefuse
    \/ GatePass
    \/ ListFirst
    \/ ListError
    \/ ListMore
    \/ FilterAndSort
    \/ NoArtifact
    \/ Download
    \/ DownloadError
    \/ ExtractFile
    \/ ExtractFileMissing
    \/ ExtractPattern
    \/ StopService
    \/ CopyFile
    \/ StartService
    \/ Unlink
    \/ Settle
    \/ StatusService
    \/ EndFor
    \/ Return

Spec == Init /\ [][Next]_vars

-----------------------------------------------------------------------------
(* Vocabulary of the properties *)

IsPrefix(a, b) == Len(a) <= Len(b) /\ a = SubSeq(b, 1, Len(a))

\* The events of the log whose operation is in ops, in order of occurrence.
Events(ops) == SelectSeq(log, LAMBDA e : e.op \in ops)

\* What an operation was invoked on, without its outcome.
Call(e) == [op |-> e.op, svc |-> e.svc, n |-> e.n, path |-> e.path]
Calls(ops) == LET ev == Events(ops) IN [k \in 1..Len(ev) |-> Call(ev[k])]

DeployOps == {"stop", "cp", "start", "unlink", "sleep", "status"}
PrivilegedOps == {"stop", "cp", "start"}

\* The run ended by returning from main().
Completed == pc = "done" /\ exception = ""

\* The listing was collected: the pagination loop was left by its condition.
ListingCollected ==
    /\ pc \notin {"gate", "list", "more"}
    /\ exception # "SystemExit"
    /\ ~\E k \in 1..Len(log) : log[k].op = "get_list" /\ log[k].rc # 0

\* Some stop, copy or start invocation failed.
SomeFailure == \E k \in 1..Len(log) : log[k].op \in PrivilegedOps /\ log[k].rc # 0

\* The staged files in the order in which they were created.
Staged == LET ev == Events({"mktemp"}) IN [k \in 1..Len(ev) |-> ev[k].n]

\* The place of the staged file n in the mapping.
PlaceOf(n) ==
    (CHOOSE k \in 1..Len(temp_to_target) : temp_to_target[k].k = n)

ServiceCalls(op) ==
    [k \in 1..Len(systemd_services) |->
        [op |-> op, svc |-> systemd_services[k], n |-> 0, path |-> NoPath]]

CopyCalls ==
    LET st == Staged
    IN [k \in 1..Len(st) |->
           [op |-> "cp", svc |-> NoSvc, n |-> st[k],
            path |-> temp_to_target[PlaceOf(st[k])].v]]

UnlinkCalls ==
    LET st == Staged
    IN [k \in 1..Len(st) |->
           [op |-> "unlink", svc |-> NoSvc, n |-> st[k], path |-> NoPath]]

\* The whole deployment, as the specification orders it.
ExpectedDeployment ==
    ServiceCalls("stop") \o CopyCalls \o ServiceCalls("start") \o UnlinkCalls
    \o (IF systemd_services # <<>>
        THEN <<[op |-> "sleep", svc |-> NoSvc, n |-> 0, path |-> NoPath]>>
             \o ServiceCalls("status")
        ELSE <<>>)

-----------------------------------------------------------------------------
(* Properties *)

\* C1: the deployment operations of a run occur in the order stop of every
\* configured service in list order, copy of every staged mapping in recording
\* order, start of every service in list order, deletion of the staged files,
\* then the settle delay and status of every service in list order: at every
\* moment what has been invoked is an initial part of that sequence, and a
\* run that returns has invoked all of it.
C1_DeploymentOrder ==
    LET invoked == Calls(DeployOps)
        expected == ExpectedDeployment
    IN /\ IsPrefix(invoked, expected)
       /\ Completed => invoked = expected

\* A completed run with two services and three staged files, one of them
\* staged by a pattern.
C1_Witness ==
    /\ Completed
    /\ Len(systemd_services) = 2
    /\ Len(temp_to_target) = 3
    /\ Len(copy_files) = 2
    /\ Len(Calls(DeployOps)) = 13

\* The staged files that the mapping records and that are still on disk.
Remaining == {k \in 1..Len(temp_to_target) : temp_to_target[k].k \in tmpfiles}

\* C2: a run that has begun the stop phase goes on to the cleanup whatever
\* stop, copy and start invocations fail (it always has a next step until the
\* cleanup is over, and it does not end with an exception), and once it is
\* past the cleanup no staged file recorded in the mapping remains.
C2_CleanupUnconditional ==
    /\ pc \in {"stop", "copy", "start", "cleanup"} =>
         exception = "" /\ ENABLED Next
    /\ (pc = "done" /\ Events(DeployOps) # <<>>) => exception = ""
    /\ (pc \in {"settle", "status", "return"} \/ Completed)
         => Remaining = {} /\ tmpfiles = {}

\* A completed run whose second of three copies failed, as did a stop and a
\* start, and which had staged three files.
C2_Witness ==
    /\ Completed
    /\ tmpfiles = {}
    /\ ntf_count = 3
    /\ Len(Events({"cp"})) = 3
    /\ Events({"cp"})[1].rc = 0
    /\ Events({"cp"})[2].rc = 1
    /\ Events({"cp"})[3].rc = 0
    /\ \E k \in 1..Len(log) : log[k].op = "stop" /\ log[k].rc = 1
    /\ \E k \in 1..Len(log) : log[k].op = "start" /\ log[k].rc = 1

\* The configuration opts in to root.
OptsInToRoot == "allow_root" \in DOMAIN config /\ config["allow_root"] = TRUE

\* C3: without the opt-in (allow_root absent or false) a superuser run ends
\* with a non-zero status before any request, subprocess, staged file or
\* service operation; with the opt-in, or without superuser identity, the run
\* is not ended by the gate and goes on to its first subprocess.
C3_RootGate ==
    /\ (~OptsInToRoot /\ euid = 0) =>
         /\ pc \in {"gate", "done"}
         /\ log = <<>>
         /\ ntf_count = 0 /\ tmpfiles = {}
         /\ pc = "done" => exit_code # 0 /\ exit_code # -1
    /\ (OptsInToRoot \/ euid # 0) =>
         /\ exception # "SystemExit"
         /\ pc # "gate" => log # <<>> /\ log[1].op = "sudo_v"

\* A superuser run that was refused with allow_root: false in the document.
C3_Witness ==
    /\ pc = "done"
    /\ euid = 0
    /\ "allow_root" \in DOMAIN config /\ config["allow_root"] = FALSE
    /\ exit_code = 1
    /\ log = <<>>

\* The number of requests that the listing takes.
PagesNeeded ==
    IF provider.records = <<>> THEN 1
    ELSE (Len(provider.records) + provider.per_page - 1) \div provider.per_page

\* C4: whatever the total count and the page size, the pagination makes no
\* more requests than the listing has pages, collects the provider's records
\* in order without repeating one, and ends holding exactly the provider's
\* records, after exactly as many requests as it takes to reach the total.
C4_PaginationCollectsAll ==
    /\ Len(Events({"get_list"})) <= PagesNeeded
    /\ IsPrefix(all_artifacts, provider.records)
    /\ ListingCollected =>
         /\ all_artifacts = provider.records
         /\ Len(all_artifacts) = artifact_count
         /\ Len(Events({"get_list"})) = PagesNeeded

\* Three records collected in two requests, the last page shorter.
C4_Witness ==
    /\ ListingCollected
    /\ Len(provider.records) = 3
    /\ provider.per_page = 2
    /\ Len(Events({"get_list"})) = 2
    /\ Len(all_artifacts) = 3

\* The moment a timestamp denotes.
Digit(c) == CASE c = "0" -> 0 [] c = "1" -> 1 [] c = "2" -> 2
When(t) == 10 * Digit(t[1]) + Digit(t[2])

\* The filter of the configuration on a record.
Matching(r) ==
    /\ r.name = config["artifact"]
    /\ \/ "branch" \notin DOMAIN config
       \/ config["branch"] = ""
       \/ r.head_branch = config["branch"]

\* The record of this id is the freshest matching one, the first of those in
\* provider order.
Freshest(id) ==
    \E k \in 1..Len(provider.records) :
        /\ provider.records[k].id = id
        /\ Matching(provider.records[k])
        /\ \A j \in 1..Len(provider.records) :
             Matching(provider.records[j]) =>
               /\ When(provider.records[j].updated_at)
                    <= When(provider.records[k].updated_at)
               /\ j < k => When(provider.records[j].updated_at)
                             < When(provider.records[k].updated_at)

\* C5: the artifact whose archive is requested satisfies the name and branch
\* filter, no matching record is more recent, and every matching record that
\* comes before it in the provider's order is strictly older.
C5_FreshestSelected ==
    \A k \in 1..Len(log) : log[k].op = "get_zip" => Freshest(log[k].n)

\* The second of three records is downloaded: the first is more recent but of
\* another branch, the third is as recent as the second.
C5_Witness ==
    /\ \E k \in 1..Len(log) : log[k].op = "get_zip" /\ log[k].n = 2
    /\ Len(provider.records) = 3
    /\ "branch" \in DOMAIN config
    /\ provider.records[1].name = "app"
    /\ provider.records[1].head_branch = "dev"
    /\ When(provider.records[1].updated_at)
         > When(provider.records[2].updated_at)
    /\ Matching(provider.records[3])
    /\ provider.records[3].updated_at = provider.records[2].updated_at

\* No record of the provider satisfies the filter.
NoMatch == \A k \in 1..Len(provider.records) : ~Matching(provider.records[k])

\* C6: when no collected record satisfies the filter, the run ends with a
\* NoMatchError and a non-zero status, without a download request, a staged
\* file or a service operation.
C6_NoMatchError ==
    (pc = "done" /\ ListingCollected /\ NoMatch) =>
        /\ exception = "NoMatchError"
        /\ exit_code # 0
        /\ Events({"get_zip"}) = <<>>
        /\ ntf_count = 0
        /\ Events(DeployOps) = <<>>

\* What holds of the run without a match: it never leaves the selection and
\* ends there with a non-zero status.
NoMatchEndsAtSelection ==
    (ListingCollected /\ NoMatch) =>
        /\ pc \in {"download", "done"}
        /\ pc = "done" => exit_code = 1
        /\ Events({"get_zip"}) = <<>>
        /\ ntf_count = 0
        /\ Events(DeployOps) = <<>>

\* C7: a run ends with status 0 only if no stop, copy or start invocation
\* failed.
C7_ExitStatusReflectsFailures ==
    (pc = "done" /\ exit_code = 0) => ~SomeFailure

\* C8: with no configured service neither the settle delay nor a status
\* invocation happens; with services, status is invoked for the services in
\* list order, once each in a run that returns, only after the one settle
\* delay, which comes after the cleanup is complete.
C8_StatusPhase ==
    /\ systemd_services = <<>> => Events({"sleep", "status"}) = <<>>
    /\ IsPrefix(Calls({"status"}), ServiceCalls("status"))
    /\ (Completed /\ systemd_services # <<>>) =>
         /\ Calls({"status"}) = ServiceCalls("status")
         /\ Len(Events({"sleep"})) = 1
    /\ Len(Events({"sleep"})) <= 1
    /\ \A k \in 1..Len(log) :
         /\ log[k].op = "status" => \E j \in 1..(k - 1) : log[j].op = "sleep"
         /\ log[k].op = "sleep" =>
              /\ \A j \in (k + 1)..Len(log) : log[j].op = "status"
              /\ Len(SelectSeq(SubSeq(log, 1, k - 1),
                               LAMBDA e : e.op = "unlink"))
                   = Len(temp_to_target)
    /\ Events({"sleep"}) # <<>> => tmpfiles = {}

\* A completed run with two services and staged files, both statuses invoked.
C8_Witness ==
    /\ Completed
    /\ Len(systemd_services) = 2
    /\ Len(Events({"status"})) = 2
    /\ Len(Events({"unlink"})) = 2
    /\ Len(Events({"sleep"})) = 1

\* C9: a run that has invoked a stop, a copy or a start ends having invoked
\* stop once for every configured service, copy once for every staged
\* mapping and start once for every configured service, whichever of these
\* invocations failed.
C9_FailuresDoNotAbort ==
    (pc = "done" /\ Events(PrivilegedOps) # <<>>) =>
        /\ Calls({"stop"}) = ServiceCalls("stop")
        /\ Calls({"cp"}) = CopyCalls
        /\ Calls({"start"}) = ServiceCalls("start")

\* A run in which every one of two stops, three copies and two starts failed.
C9_Witness ==
    /\ pc = "done"
    /\ Len(Events({"stop"})) = 2
    /\ Len(Events({"cp"})) = 3
    /\ Len(Events({"start"})) = 2
    /\ \A k \in 1..Len(log) : log[k].op \in PrivilegedOps => log[k].rc = 1

\* C10: in every terminal state of a run, however it ended, no temporary
\* file created during the extraction is left on disk.
C10_NoStagedFileOutlivesRun ==
    pc = "done" => tmpfiles = {}

====
